---- MODULE Spec2Model ----
(***************************************************************************)
(* A model of the weewx EmonCMS uploader (bin/user/emoncms.py):            *)
(*   - EmonCMS.__init__ / EmonCMSThread.__init__ : configuration           *)
(*   - _get_template, _get_units_label           : template resolution     *)
(*   - EmonCMSThread.get_url                     : record -> URL           *)
(*   - EmonCMSThread.process_record / check_response, run by the           *)
(*     weewx.restx.RESTThread loop                                         *)
(*   - _obfuscate and the two log lines that involve the token             *)
(*                                                                         *)
(* Python values held in a record are written as their literals: "50" is  *)
(* the number 50.0, "" the empty string, "None" the value None.            *)
(* Text that is searched (token, log lines) is a sequence of characters.   *)
(***************************************************************************)
EXTENDS Integers, Sequences, FiniteSets, TLC

VARIABLES
    config,             \* the [StdRESTful][[EmonCMS]] section as the user wrote it
    upload_all,         \* EmonCMSThread.upload_all
    inputs,             \* EmonCMSThread.inputs
    append_units_label, \* EmonCMSThread.append_units_label
    skip_upload,        \* EmonCMSThread.skip_upload
    templates,          \* EmonCMSThread.templates
    queue,              \* EmonCMS.archive_queue
    pc,                 \* where the worker thread is: "wait", "post", "exited"
    record,             \* the record the worker took last ("none" before the first)
    url,                \* what get_url did for that record
    tries,              \* _count of post_with_retries: attempts made for this record
    resp,               \* what the last attempt of this record got from the server
    outcome,            \* how the run loop ended the last record's cycle
    token,              \* EmonCMSThread.token
    weewx_debug,        \* weewx.debug
    log                 \* the log lines written that show the token or the url

vars == <<config, upload_all, inputs, append_units_label, skip_upload, templates,
          queue, pc, record, url, tries, resp, outcome, token, weewx_debug, log>>

----------------------------------------------------------------------------
(* Bounds of the model *)

MaxQueue == 1       \* records that may wait in archive_queue
MaxTokenLen == 5    \* longest token tried

(* Program constants *)

max_tries == 3      \* EmonCMSThread.__init__ default

----------------------------------------------------------------------------
(* Small helpers *)

NONE == "None"

Max(a, b) == IF a >= b THEN a ELSE b

\* dict.get(k, default)
Get(d, k, default) == IF k \in DOMAIN d THEN d[k] ELSE default

----------------------------------------------------------------------------
(* Records.  A record always carries dateTime and usUnits (weewx archive   *)
(* records do); the observations in it come and go.                        *)

US == "1"           \* weewx.US, as the literal held in record['usUnits']
METRIC == "16"      \* weewx.METRIC

ObsKeys == {"outTemp", "windDir"}

ObsVals == {"50", "", NONE}

\* the order in which the templates dict is iterated (fixed within one run)
KeyOrder == <<"dateTime", "usUnits", "outTemp", "windDir">>

MakeRecord(obs, u) ==
    [k \in DOMAIN obs \cup {"dateTime", "usUnits"} |->
        IF k = "dateTime" THEN "1000" ELSE IF k = "usUnits" THEN u ELSE obs[k]]

Records ==
    { MakeRecord(obs, u) :
        obs \in UNION { [S -> ObsVals] : S \in SUBSET ObsKeys }, u \in {US, METRIC} }

\* the records the archive queue is fed in the worker specification
QueuedRecords == { r \in Records : "windDir" \notin DOMAIN r }

\* the number a literal denotes
NumLit == [x \in {"50", "1", "16", "1000"} |->
             CASE x = "50" -> 50 [] x = "1" -> 1 [] x = "16" -> 16 [] x = "1000" -> 1000]

\* float(x): TypeError on None, ValueError on text that is no number
float(x) ==
    IF x = NONE THEN [ok |-> FALSE, exc |-> "TypeError", v |-> 0]
    ELSE IF x \in DOMAIN NumLit THEN [ok |-> TRUE, exc |-> NONE, v |-> NumLit[x]]
    ELSE [ok |-> FALSE, exc |-> "ValueError", v |-> 0]

----------------------------------------------------------------------------
(* weewx.units, as far as get_url and _get_template use it *)

\* weewx.units.getStandardUnitType(unit_system, obs) -> (unit, group);
\* (None, None) for an observation weewx knows no group of
getStandardUnitType(unit_system, obs) ==
    CASE obs = "outTemp" ->
            IF unit_system = US THEN <<"degree_F", "group_temperature">>
                                ELSE <<"degree_C", "group_temperature">>
      [] obs = "windDir" -> <<"degree_compass", "group_direction">>
      [] obs = "dateTime" -> <<"unix_epoch", "group_time">>
      [] OTHER -> <<NONE, NONE>>

\* weewx.units.convert((v, from_unit, from_group), to_units)[0]: the value as
\* is when the units agree, the conversion function of conversionDict when
\* there is one, and KeyError (the failed dict lookup) when there is none
convert(v, from_unit, to_units) ==
    IF from_unit = to_units THEN [ok |-> TRUE, exc |-> NONE, v |-> v]
    ELSE IF from_unit = "degree_F" /\ to_units = "degree_C"
        THEN [ok |-> TRUE, exc |-> NONE, v |-> ((v - 32) * 5) \div 9]
    ELSE IF from_unit = "degree_C" /\ to_units = "degree_F"
        THEN [ok |-> TRUE, exc |-> NONE, v |-> (v * 9) \div 5 + 32]
    ELSE [ok |-> FALSE, exc |-> "KeyError", v |-> 0]

----------------------------------------------------------------------------
(* Template resolution *)

UNIT_REDUCTIONS ==
    [degree_F |-> "F", degree_C |-> "C", inch |-> "in",
     mile_per_hour |-> "mph", mile_per_hour2 |-> "mph",
     km_per_hour |-> "kph", km_per_hour2 |-> "kph",
     meter_per_second |-> "mps", meter_per_second2 |-> "mps",
     degree_compass |-> NONE, watt_per_meter_squared |-> "Wpm2",
     uv_index |-> NONE, percent |-> NONE, unix_epoch |-> NONE]

get_units_label(obs, unit_system) ==
    LET unit_type == getStandardUnitType(unit_system, obs)[1]
    IN  Get(UNIT_REDUCTIONS, unit_type, unit_type)

NoOverrides == [x \in {} |-> NONE]

get_template(obs_key, overrides, append, unit_system) ==
    LET label == get_units_label(obs_key, unit_system)
        named == append /\ label # NONE
        over == DOMAIN overrides \cap {"name", "format", "units"}
    IN  [x \in over \cup (IF named THEN {"name"} ELSE {}) |->
            IF x \in over THEN overrides[x] ELSE obs_key \o "_" \o label]

----------------------------------------------------------------------------
(* Configuration: EmonCMS.__init__ and EmonCMSThread.__init__ *)

\* [[[inputs]]] sections tried
Inputs1 == [outTemp |-> [units |-> "degree_C", format |-> "%.1f"]]
Inputs2 == [outTemp |-> [units |-> "mile_per_hour"], windDir |-> [name |-> "dir"]]
Inputs3 == [outTemp |-> NoOverrides, windDir |-> [format |-> "%q"]]

\* the section as written: "unset" is an option left out; has_inputs says
\* whether there is an [[[inputs]]] section
Configs ==
    { [obs_to_upload |-> o, has_inputs |-> h, inputs |-> i,
       append_units_label |-> a, skip_upload |-> s] :
        o \in {"unset", "all", "All", "none"},
        h \in BOOLEAN,
        i \in {NoOverrides, Inputs1, Inputs2, Inputs3},
        a \in {"unset", "false"},
        s \in {"unset", "true"} }

\* str.lower()
lower(s) == CASE s \in {"all", "All", "ALL"} -> "all"
              [] s \in {"none", "None", "NONE"} -> "none"
              [] OTHER -> s

\* weeutil.weeutil.to_bool
to_bool(x) == lower(x) \in {"true", "True", "yes", "1"}

\* site_dict after the setdefault calls and the 'inputs' copy; a thread
\* parameter that site_dict does not hold takes its default
SiteDict(c) ==
    [obs_to_upload |-> IF c.obs_to_upload = "unset" THEN "all" ELSE c.obs_to_upload,
     append_units_label |-> to_bool(IF c.append_units_label = "unset" THEN "True"
                                    ELSE c.append_units_label),
     inputs |-> IF c.has_inputs THEN c.inputs ELSE NoOverrides,
     skip_upload |-> IF c.skip_upload = "unset" THEN "False" ELSE c.skip_upload]

\* self.upload_all = True if obs_to_upload.lower() == 'all' else False
UploadAll(obs_to_upload) == lower(obs_to_upload) = "all"

node == 0           \* site_dict.setdefault('node', 0)

Prefix == ""        \* prefix is None: no prefix is put before the names

----------------------------------------------------------------------------
(* get_url *)

\* fmt % v for the formats tried; the numbers of the model are whole floats
Format(fmt, v) ==
    CASE fmt = "%s" -> [ok |-> TRUE, exc |-> NONE, s |-> ToString(v) \o ".0"]
      [] fmt = "%.1f" -> [ok |-> TRUE, exc |-> NONE, s |-> ToString(v) \o ".0"]
      [] OTHER -> [ok |-> FALSE, exc |-> "ValueError", s |-> ""]

\* except (TypeError, ValueError): pass
Caught(exc) == exc \in {"TypeError", "ValueError"}

\* get_url with the upload-all cache filled only while it is empty, as the
\* explicit list is: keys that first appear in a later record get no template
NewTemplatesOnce(r, tmpls) ==
    IF DOMAIN tmpls # {} THEN tmpls
    ELSE IF upload_all
    THEN [f \in DOMAIN r |->
            get_template(f, Get(inputs, f, NoOverrides),
                         append_units_label, r["usUnits"])]
    ELSE [f \in DOMAIN inputs |->
            get_template(f, inputs[f], append_units_label, r["usUnits"])]

\* get_url taking the upload-all branch whatever upload_all says
NewTemplatesAll(r, tmpls) ==
    [f \in DOMAIN tmpls \cup DOMAIN r |->
        IF f \in DOMAIN tmpls THEN tmpls[f]
        ELSE get_template(f, Get(inputs, f, NoOverrides),
                          append_units_label, r["usUnits"])]

\* get_url resolving the templates anew for every record
NewTemplatesRecomputed(r, tmpls) ==
    IF upload_all
    THEN [f \in DOMAIN tmpls \cup DOMAIN r |->
            get_template(f, Get(inputs, f, NoOverrides),
                         append_units_label, r["usUnits"])]
    ELSE [f \in DOMAIN inputs |->
            get_template(f, inputs[f], append_units_label, r["usUnits"])]

\* the templates after the first part of get_url
NewTemplates(r, tmpls) ==
    IF upload_all
    THEN [f \in DOMAIN tmpls \cup DOMAIN r |->
            IF f \in DOMAIN tmpls THEN tmpls[f]
            ELSE get_template(f, Get(inputs, f, NoOverrides),
                              append_units_label, r["usUnits"])]
    ELSE IF DOMAIN tmpls = {}
    THEN [f \in DOMAIN inputs |->
            get_template(f, inputs[f], append_units_label, r["usUnits"])]
    ELSE tmpls

\* one pass of the loop over self.templates, for key k:
\*   status "ok"    an entry is appended to data
\*          "skip"  an exception was raised and the except clause took it
\*          "raise" an exception was raised that the except clause lets go
Field(r, tmpls, k) ==
    LET f == float(Get(r, k, NONE))
        name == Get(tmpls[k], "name", k)
        fmt == Get(tmpls[k], "format", "%s")
        to_units == Get(tmpls[k], "units", NONE)
        c == IF to_units # NONE
             THEN convert(f.v, getStandardUnitType(r["usUnits"], k)[1], to_units)
             ELSE [ok |-> TRUE, exc |-> NONE, v |-> f.v]
        s == Format(fmt, c.v)
        exc == IF ~f.ok THEN f.exc ELSE IF ~c.ok THEN c.exc
               ELSE IF ~s.ok THEN s.exc ELSE NONE
    IN  [status |-> IF exc = NONE THEN "ok" ELSE IF Caught(exc) THEN "skip" ELSE "raise",
         exc |-> exc,
         entry |-> [key |-> k, text |-> Prefix \o name \o ":" \o s.s]]

\* the keys of the templates, in iteration order
TemplateKeys(tmpls) ==
    LET InTemplates(k) == k \in DOMAIN tmpls
    IN  SelectSeq(KeyOrder, InTemplates)

RECURSIVE Data(_, _, _)
\* the list data after the loop over the keys ks (no key of ks raises)
Data(r, tmpls, ks) ==
    IF ks = <<>> THEN <<>>
    ELSE LET fld == Field(r, tmpls, Head(ks))
         IN  (IF fld.status = "ok" THEN <<fld.entry>> ELSE <<>>)
                \o Data(r, tmpls, Tail(ks))

NoRecord == [x \in {} |-> NONE]

NoUrl == [status |-> "none", time |-> NONE, node |-> NONE, data |-> <<>>]

\* what get_url(r) gives with the templates tmpls (already brought up to
\* date): the parts of the url, or the exception that leaves get_url
Render(r, tmpls) ==
    LET ks == TemplateKeys(tmpls)
        raising == { i \in 1..Len(ks) : Field(r, tmpls, ks[i]).status = "raise" }
    IN  IF raising # {}
        THEN LET first == CHOOSE i \in raising : \A j \in raising : i <= j
             IN  [status |-> Field(r, tmpls, ks[first]).exc,
                  time |-> NONE, node |-> NONE, data |-> <<>>]
        ELSE [status |-> "url", time |-> r["dateTime"], node |-> ToString(node),
              data |-> Data(r, tmpls, ks)]

----------------------------------------------------------------------------
(* The log.  Text is a sequence of characters; a piece of fixed text that  *)
(* no token can overlap ("apikey=", "time=1000") is one element.           *)

\* _obfuscate(s): 'X'*(len(s)-4) + s[-4:]; a count below 1 repeats nothing,
\* and s[-4:] is all of s when s has fewer than 4 characters
obfuscate(s) ==
    [i \in 1..Max(Len(s) - 4, 0) |-> "X"] \o SubSeq(s, Max(Len(s) - 3, 1), Len(s))

\* loginf("Data will be uploaded with token=%s" % _obfuscate(site_dict['token']))
StartupLine(t) == <<"Data will be uploaded with token=">> \o obfuscate(t)

RECURSIVE Join(_)
\* ','.join(data)
Join(data) ==
    IF data = <<>> THEN ""
    ELSE IF Len(data) = 1 THEN data[1].text
    ELSE data[1].text \o "," \o Join(Tail(data))

\* ''.join(parts)
UrlText(t, u) ==
    <<"http://emoncms.org/input/post.json", "?", "apikey=">> \o t
        \o <<"&", "time=" \o u.time>>
        \o (IF u.node # NONE THEN <<"&", "node=" \o u.node>> ELSE <<>>)
        \o <<"&", "json={" \o Join(u.data) \o "}">>

RECURSIVE DropToAmp(_)
\* what is left of cs after the longest run of characters other than '&'
DropToAmp(cs) ==
    IF cs = <<>> \/ Head(cs) = "&" THEN cs ELSE DropToAmp(Tail(cs))

RECURSIVE ReSubApikey(_)
\* re.sub(r"apikey=[^\&]*", "apikey=XXX", url)
ReSubApikey(cs) ==
    IF cs = <<>> THEN <<>>
    ELSE IF Head(cs) = "apikey="
        THEN <<"apikey=", "X", "X", "X">> \o ReSubApikey(DropToAmp(Tail(cs)))
    ELSE <<Head(cs)>> \o ReSubApikey(Tail(cs))

\* logdbg('url: %s' % re.sub(...))
DebugLine(t, u) == <<"url: ">> \o ReSubApikey(UrlText(t, u))

----------------------------------------------------------------------------
(* Initial states and the call of get_url *)

SomeToken == <<"a", "b", "c", "d", "e", "f">>

TokenChars == {"a", "X", "&"}

Tokens == UNION { [1..n -> TokenChars] : n \in 1..MaxTokenLen }

TypeOK ==
    /\ config \in Configs
    /\ upload_all \in BOOLEAN
    /\ append_units_label \in BOOLEAN
    /\ skip_upload \in BOOLEAN
    /\ pc \in {"wait", "post", "exited"}
    /\ tries \in 0..max_tries
    /\ Len(queue) <= MaxQueue

\* the state after EmonCMS.__init__ has built the thread with configuration c
\* and token t, weewx.debug being d
InitWith(c, t, d) ==
    /\ config = c
    /\ upload_all = UploadAll(SiteDict(c).obs_to_upload)
    /\ inputs = SiteDict(c).inputs
    /\ append_units_label = SiteDict(c).append_units_label
    /\ skip_upload = to_bool(SiteDict(c).skip_upload)
    /\ templates = NoOverrides
    /\ queue = <<>>
    /\ pc = "wait"
    /\ record = NoRecord
    /\ url = NoUrl
    /\ tries = 0
    /\ resp = "none"
    /\ outcome = "none"
    /\ token = t
    /\ weewx_debug = d
    /\ log = {StartupLine(t)}

\* a configuration without an [[[inputs]]] section has no inputs to vary
WellFormedConfig(c) == c.has_inputs \/ c.inputs = NoOverrides

\* get_url(r): the templates are brought up to date, the url is built and,
\* when weewx.debug >= 2, logged with its apikey replaced
get_url(r) ==
    /\ templates' = NewTemplates(r, templates)
    /\ record' = r
    /\ url' = Render(r, templates')
    /\ log' = IF url'.status = "url" /\ weewx_debug >= 2
              THEN log \cup {DebugLine(token, url')} ELSE log

----------------------------------------------------------------------------
(* SpecUrl: get_url called on its own, with any record after any other *)

Init == \E c \in Configs : WellFormedConfig(c) /\ InitWith(c, SomeToken, 0)

GetUrl(r) ==
    /\ get_url(r)
    /\ UNCHANGED <<config, upload_all, inputs, append_units_label, skip_upload,
                   queue, pc, tries, resp, outcome, token, weewx_debug>>

NextUrl == \E r \in Records : GetUrl(r)

SpecUrl == Init /\ [][NextUrl]_vars

----------------------------------------------------------------------------
(* Spec: the service and its worker thread.  The loop of the thread is     *)
(* weewx.restx.RESTThread.run_loop: it takes a record from the queue,      *)
(* calls process_record, and                                               *)
(*   - on FailedPost logs the failure and goes on with the next record,    *)
(*   - on any other exception logs it and returns: the thread ends,        *)
(*   - otherwise logs the success.                                         *)
(* No post_interval, stale or max_backlog is configured, so no record is  *)
(* skipped or trimmed; manager_dict and unit_system are not configured,    *)
(* so process_record neither augments nor converts the record.             *)

\* EmonCMS.new_archive_record: self.archive_queue.put(event.record)
new_archive_record(r) ==
    /\ Len(queue) < MaxQueue
    /\ queue' = Append(queue, r)
    /\ UNCHANGED <<config, upload_all, inputs, append_units_label, skip_upload,
                   templates, pc, record, url, tries, resp, outcome, token,
                   weewx_debug, log>>

\* the thread takes the next record and runs process_record up to the call
\* of post_with_retries
process_record ==
    /\ pc = "wait"
    /\ queue # <<>>
    /\ queue' = Tail(queue)
    /\ get_url(Head(queue))
    /\ tries' = 0
    /\ resp' = "none"
    /\ IF url'.status # "url"
       THEN \* the exception leaves get_url and process_record: thread exits
            pc' = "exited" /\ outcome' = "exited"
       ELSE IF skip_upload
       THEN \* loginf("skipping upload"); return
            pc' = "wait" /\ outcome' = "success"
       ELSE pc' = "post" /\ outcome' = "posting"
    /\ UNCHANGED <<config, upload_all, inputs, append_units_label, skip_upload,
                   token, weewx_debug>>

\* what the server may answer: a 2xx response with this body ...
Bodies == {"ok", "Invalid API key"}

\* ... or no usable response (URLError, socket error, a status not 2xx)
Errors == {"URLError"}

\* check_response taking any body for a success
check_response_any(txt) == NONE

\* check_response: the exception it raises, None when it returns
check_response(txt) == IF txt # "ok" THEN "FailedPost" ELSE NONE

\* one pass of the loop of post_with_retries, the server answering rsp.
\* post_with_retries catches URLError, socket.error and HTTPException and
\* tries again; FailedPost raised by check_response is none of them and
\* leaves post_with_retries at once.  After max_tries failed passes it
\* raises FailedPost itself.
post_with_retries(rsp) ==
    /\ pc = "post"
    /\ tries' = tries + 1
    /\ resp' = rsp
    /\ IF rsp \in Bodies
       THEN IF check_response(rsp) = NONE
            THEN pc' = "wait" /\ outcome' = "success"
            ELSE pc' = "wait" /\ outcome' = "failed"
       ELSE IF tries' < max_tries
            THEN pc' = "post" /\ outcome' = "posting"
            ELSE pc' = "wait" /\ outcome' = "failed"
    /\ UNCHANGED <<config, upload_all, inputs, append_units_label, skip_upload,
                   templates, queue, record, url, token, weewx_debug, log>>

Next ==
    \/ \E r \in QueuedRecords : new_archive_record(r)
    \/ process_record
    \/ \E rsp \in Bodies \cup Errors : post_with_retries(rsp)

Spec == Init /\ [][Next]_vars

----------------------------------------------------------------------------
(* SpecLog: what the log shows of the token, for every token *)

\* the configuration and the records of the runs that look at the log
LogConfig ==
    [obs_to_upload |-> "none", has_inputs |-> TRUE, inputs |-> Inputs1,
     append_units_label |-> "unset", skip_upload |-> "unset"]

LogRecords == { r \in QueuedRecords : r["usUnits"] = US /\ Get(r, "outTemp", "") # "" }

InitLog == \E t \in Tokens, d \in {0, 2} : InitWith(LogConfig, t, d)

NextLog ==
    \/ \E r \in LogRecords : new_archive_record(r)
    \/ process_record
    \/ \E rsp \in Bodies \cup Errors : post_with_retries(rsp)

SpecLog == InitLog /\ [][NextLog]_vars

----------------------------------------------------------------------------
(* Properties of get_url, stated of the last call: record is its argument, *)
(* templates the cache it left, url what it gave.                          *)

Called == url.status # "none"

\* the keys the loop of get_url went through
Candidates == DOMAIN templates

\* the places of data that hold the entry of key k
EntriesOf(k) == { i \in 1..Len(url.data) : url.data[i].key = k }

\* the value of k in the record parses as a number
Parses(k) == float(Get(record, k, NONE)).ok

\* the template of k names target units and the conversion to them fails
ConversionFails(k) ==
    /\ Parses(k)
    /\ "units" \in DOMAIN templates[k]
    /\ ~convert(float(record[k]).v,
                getStandardUnitType(record["usUnits"], k)[1],
                templates[k]["units"]).ok

\* the format of k's template cannot render a number
FormatFails(k) == ~Format(Get(templates[k], "format", "%s"), 0).ok

C2_ExplicitListOnly ==
    (~upload_all /\ url.status = "url") =>
        \A i \in 1..Len(url.data) : url.data[i].key \in DOMAIN inputs

\* C2 witness: a url rendered in explicit-list mode with an entry in it, for
\* a record that holds a numeric observation outside the inputs
C2_Witness ==
    /\ ~upload_all /\ url.status = "url" /\ url.data # <<>>
    /\ \E k \in (ObsKeys \cap DOMAIN record) \ DOMAIN inputs : Parses(k)

\* C3: with an [[[inputs]]] section and obs_to_upload left unset, no key
\* outside the input map has an entry in the data of a url.
C3_InputMapRestricts ==
    (config.has_inputs /\ config.obs_to_upload = "unset" /\ url.status = "url") =>
        \A i \in 1..Len(url.data) : url.data[i].key \in DOMAIN config.inputs

\* C4: when the value of a candidate key does not parse as a number, get_url
\* still returns a url, the key has no entry in it, and every other candidate
\* with a value that parses and renders has its entry.
C4_UnparseableSkipped ==
    (Called /\ \E k \in Candidates : ~Parses(k)) =>
        /\ url.status = "url"
        /\ \A k \in Candidates :
            /\ ~Parses(k) => EntriesOf(k) = {}
            /\ (Parses(k) /\ ~ConversionFails(k) /\ ~FormatFails(k))
                  => EntriesOf(k) # {}

\* C5: when the conversion to a template's target units fails, get_url skips
\* only that field: it returns a url with the entries of the other valid
\* fields, and no error leaves get_url.
C5_ConversionFailureSkipped ==
    (Called /\ \E k \in Candidates : ConversionFails(k)) =>
        /\ url.status = "url"
        /\ \A k \in Candidates :
            /\ ConversionFails(k) => EntriesOf(k) = {}
            /\ (Parses(k) /\ ~ConversionFails(k) /\ ~FormatFails(k))
                  => EntriesOf(k) # {}

\* C10: a cached template is never changed nor removed by a later record;
\* in upload-all mode the cache gains exactly the unseen keys of the record,
\* in explicit-list mode its keys are fixed once a record has been handled.
C10_TemplatesStable ==
    [][ /\ \A k \in DOMAIN templates :
              k \in DOMAIN templates' /\ templates'[k] = templates[k]
        /\ upload_all => DOMAIN templates' = DOMAIN templates \cup DOMAIN record'
        /\ (~upload_all /\ Called) => DOMAIN templates' = DOMAIN templates
      ]_vars

\* C10 witness: a record was handled whose unit system would give a cached
\* key another template than the one the cache holds
C10_Witness ==
    /\ url.status = "url"
    /\ \E k \in Candidates \cap DOMAIN record :
          templates[k] # get_template(k, Get(inputs, k, NoOverrides),
                                      append_units_label, record["usUnits"])

----------------------------------------------------------------------------
(* Properties of the worker *)

C7_WorkerKeepsRunning == queue # <<>> => pc # "exited"

\* C9: with skip_upload set, processing a record makes no request (no
\* attempt is made, post_with_retries is not entered) and the cycle ends
\* as a successful one.
C9_SkipUploadNoNetwork ==
    (skip_upload /\ record # NoRecord) =>
        /\ tries = 0 /\ resp = "none"
        /\ pc = "wait"
        /\ outcome = "success"

----------------------------------------------------------------------------
(* Properties of the log *)

\* the text tok occurs in the text line
Contains(line, tok) ==
    \E i \in 0..(Len(line) - Len(tok)) : SubSeq(line, i + 1, i + Len(tok)) = tok

\* C8: no log line holds the token in cleartext, and the masked form written
\* at startup has 'X' in the place of every character but the last 4, which
\* it keeps.
C8_TokenNeverInLog ==
    /\ \A line \in log : ~Contains(line, token)
    /\ LET m == obfuscate(token)
       IN  /\ Len(m) = Len(token)
           /\ \A i \in 1..Len(m) :
                 m[i] = IF i <= Len(m) - 4 THEN "X" ELSE token[i]

====
